---- MODULE Spec2Model ----
(***************************************************************************)
(* Model of solution.cpp: the Operand algebra (a regular language seen     *)
(* relative to a fixed word), the postfix evaluator Expression and the     *)
(* brute-force search Solver.                                              *)
(*                                                                         *)
(* Characters are one-letter strings, words are sequences of characters.   *)
(* The tables of an Operand keep the code's 0-based indices and the code's *)
(* sizes (wordLength + 1 slots per dimension); word[k] of the code is      *)
(* word[k + 1] here.                                                       *)
(***************************************************************************)
EXTENDS Integers, Sequences, FiniteSets, TLC

VARIABLES
    expression,       \* Expression::expression, the postfix token string
    word,             \* Solver::word
    storedOperands,   \* the operand stack of Solver::expression
    toCheck,          \* the reference string of the running evaluation
    operands,         \* the operand stack of the evaluating Expression
    i,                \* loop index of calculateValueOfExpression
    startPosition,    \* Solver::solve, outer loop index
    length,           \* Solver::solve, inner loop index
    answer,           \* Solver::solve, running maximum
    result,           \* the outcome of the last finished evaluation
    error,            \* what() of the ParseException thrown, or NoError
    pc,               \* position of the control flow
    run,              \* 1 during the first call of solve, 2 during the second
    firstOutcome      \* outcome of the first call of solve, for the second

vars == <<expression, word, storedOperands, toCheck, operands, i, startPosition,
          length, answer, result, error, pc, run, firstOutcome>>

----------------------------------------------------------------------------
(* Bounds of the model *)

\* SpecEval: longest token string fed to the evaluator
MaxTokens == 4
\* SpecEval: longest reference string
MaxWordLen == 3
\* Spec: longest stored expression drawn exhaustively
MaxExprLen == 3
\* Spec: longest input word drawn exhaustively
MaxSolverWord == 2
\* extra unrolling steps looked at after the loop of calculateKleeneStar
MaxExtra == 2

----------------------------------------------------------------------------
(* Characters *)

EPSILON == "1"

NoError == "none"

max(x, y) == IF x < y THEN y ELSE x

isOperator(character) == character \in {"+", ".", "*"}

isSymbolOfAlphabet(character) == character \in {"a", "b", "c", EPSILON}

\* checkWord without the loop over the characters
checkWordEmptyOnly(w) ==
    IF w = <<>> THEN "Word is empty" ELSE NoError

\* the error of checkWord, NoError when it returns
checkWord(w) ==
    LET bad == {k \in 1..Len(w) : w[k] = EPSILON \/ ~isSymbolOfAlphabet(w[k])} IN
    IF w = <<>> THEN "Word is empty"
    ELSE IF bad # {}
         THEN "Unknown symbol in word: " \o w[CHOOSE k \in bad : \A j \in bad : k <= j]
         ELSE NoError

\* Expression::operatorCode, for the characters isOperator accepts
operatorCode(character) ==
    CASE character = "+" -> "PLUS"
      [] character = "." -> "MULTIPLY"
      [] character = "*" -> "KLEENE_STAR"

----------------------------------------------------------------------------
(* Operand *)

\* Operand(ulong wordLength): the empty language
EmptyOperand(wordLength) ==
    [containsSubstring |-> [s \in 0..wordLength |-> [l \in 0..wordLength |-> FALSE]],
     containsEpsilon |-> FALSE,
     containsWordAsSubstring |-> FALSE,
     containsSuffixEqualsToPrefix |-> [l \in 0..wordLength |-> FALSE],
     containsPrefixEqualsToSuffix |-> [l \in 0..wordLength |-> FALSE],
     wordLength |-> wordLength]

\* Operand(char character, const string & word); w is non-empty
LeafOperand(character, w) ==
    LET L == Len(w) IN
    IF character = EPSILON
    THEN [EmptyOperand(L) EXCEPT !.containsEpsilon = TRUE]
    ELSE [containsSubstring |->
              [s \in 0..L |-> [l \in 0..L |->
                  s < L /\ l = 1 /\ character = w[s + 1]]],
          containsEpsilon |-> FALSE,
          containsWordAsSubstring |-> (L = 1 /\ w[1] = character),
          containsSuffixEqualsToPrefix |->
              [l \in 0..L |-> l = 1 /\ w[1] = character],
          containsPrefixEqualsToSuffix |->
              [l \in 0..L |-> l = 1 /\ w[L] = character],
          wordLength |-> L]

isWordEqualToSomeSubstringInLanguage(op) == op.containsWordAsSubstring

\* Operand::operator+
Plus(left, right) ==
    LET L == left.wordLength IN
    [containsSubstring |->
         [s \in 0..L |-> [l \in 0..L |->
             IF s < L /\ l <= L - s
             THEN left.containsSubstring[s][l] \/ right.containsSubstring[s][l]
             ELSE left.containsSubstring[s][l]]],
     containsEpsilon |-> (left.containsEpsilon \/ right.containsEpsilon),
     containsWordAsSubstring |->
         (left.containsWordAsSubstring \/ right.containsWordAsSubstring),
     containsSuffixEqualsToPrefix |->
         [l \in 0..L |->
             IF l >= 1
             THEN left.containsSuffixEqualsToPrefix[l]
                  \/ right.containsSuffixEqualsToPrefix[l]
             ELSE left.containsSuffixEqualsToPrefix[l]],
     containsPrefixEqualsToSuffix |->
         [l \in 0..L |->
             IF l >= 1
             THEN left.containsPrefixEqualsToSuffix[l]
                  \/ right.containsPrefixEqualsToSuffix[l]
             ELSE left.containsPrefixEqualsToSuffix[l]],
     wordLength |-> L]

\* updateContainsSubstringForMultiply: result.containsSubstring
MultiplyContainsSubstring(left, right) ==
    LET L == left.wordLength IN
    [s \in 0..L |-> [l \in 0..L |->
        /\ s < L
        /\ l >= 1
        /\ l <= L - s
        /\ \E prefixLength \in 0..l :
              LET suffixLength == l - prefixLength IN
              IF prefixLength = 0
              THEN left.containsEpsilon /\ right.containsSubstring[s][l]
              ELSE IF suffixLength = 0
              THEN right.containsEpsilon /\ left.containsSubstring[s][l]
              ELSE /\ left.containsSubstring[s][prefixLength]
                   /\ right.containsSubstring[s + prefixLength][suffixLength]]]

\* updateContainsSubstringForMultiply: result.containsEpsilon
MultiplyContainsEpsilon(left, right) ==
    left.containsEpsilon /\ right.containsEpsilon

\* result.containsWordAsSubstring without the loop over the splits of the word
MultiplyContainsWordNoSplit(left, right) ==
    left.containsWordAsSubstring \/ right.containsWordAsSubstring

\* updateContainsWordAsSubstringForMultiply: result.containsWordAsSubstring
MultiplyContainsWord(left, right) ==
    LET L == left.wordLength IN
    \/ left.containsWordAsSubstring
    \/ right.containsWordAsSubstring
    \/ \E prefixLength \in 1..(L - 1) :
          /\ left.containsSuffixEqualsToPrefix[prefixLength]
          /\ right.containsPrefixEqualsToSuffix[L - prefixLength]

\* result.containsSuffixEqualsToPrefix without the inner loop over the sub-prefixes
MultiplySuffixNoInnerLoop(left, right) ==
    LET L == left.wordLength IN
    [prefixLength \in 0..L |->
        /\ prefixLength >= 1
        /\ prefixLength < L
        /\ \/ right.containsSuffixEqualsToPrefix[prefixLength]
           \/ left.containsSuffixEqualsToPrefix[prefixLength] /\ right.containsEpsilon]

\* updateContainsWordAsSubstringForMultiply: result.containsSuffixEqualsToPrefix
MultiplySuffixEqualsToPrefix(left, right) ==
    LET L == left.wordLength IN
    [prefixLength \in 0..L |->
        /\ prefixLength >= 1
        /\ prefixLength < L
        /\ \/ right.containsSuffixEqualsToPrefix[prefixLength]
           \/ left.containsSuffixEqualsToPrefix[prefixLength] /\ right.containsEpsilon
           \/ \E subPrefixLength \in 1..(prefixLength - 1) :
                 /\ right.containsSubstring[subPrefixLength][prefixLength - subPrefixLength]
                 /\ left.containsSuffixEqualsToPrefix[subPrefixLength]]

\* updateContainsWordAsSubstringForMultiply: result.containsPrefixEqualsToSuffix
MultiplyPrefixEqualsToSuffix(left, right) ==
    LET L == left.wordLength IN
    [suffixLength \in 0..L |->
        /\ suffixLength >= 1
        /\ suffixLength < L
        /\ \/ left.containsPrefixEqualsToSuffix[suffixLength]
           \/ left.containsEpsilon /\ right.containsPrefixEqualsToSuffix[suffixLength]
           \/ \E subSuffixLength \in 1..(suffixLength - 1) :
                 /\ left.containsSubstring[L - suffixLength][suffixLength - subSuffixLength]
                 /\ right.containsPrefixEqualsToSuffix[subSuffixLength]]

\* Operand::operator*
Multiply(left, right) ==
    [containsSubstring |-> MultiplyContainsSubstring(left, right),
     containsEpsilon |-> MultiplyContainsEpsilon(left, right),
     containsWordAsSubstring |-> MultiplyContainsWord(left, right),
     containsSuffixEqualsToPrefix |-> MultiplySuffixEqualsToPrefix(left, right),
     containsPrefixEqualsToSuffix |-> MultiplyPrefixEqualsToSuffix(left, right),
     wordLength |-> left.wordLength]

----------------------------------------------------------------------------
(* Expression *)

\* a loop of calculateKleeneStar that stops after the first power
KleeneIterationsOnce(w) == 1

\* number of passes of the loop of calculateKleeneStar
KleeneIterations(w) == 2 * Len(w) + 2

\* calculateKleeneStar before its loop: currentPow and currentOperand
KleeneStart(w) ==
    [currentPow |-> LeafOperand(EPSILON, w), currentOperand |-> LeafOperand(EPSILON, w)]

\* n passes of the loop of calculateKleeneStar from the locals in st
RECURSIVE KleeneLoop(_, _, _)
KleeneLoop(st, startOperand, n) ==
    IF n = 0
    THEN st
    ELSE LET nextPow == Multiply(st.currentPow, startOperand)
             nextOperand == Plus(st.currentOperand, nextPow)
         IN KleeneLoop([currentPow |-> nextPow, currentOperand |-> nextOperand],
                       startOperand, n - 1)

\* the operand calculateKleeneStar pushes
KleeneStar(startOperand, w) ==
    KleeneLoop(KleeneStart(w), startOperand, KleeneIterations(w)).currentOperand

Pop(stack) == SubSeq(stack, 1, Len(stack) - 1)

Top(stack) == stack[Len(stack)]

\* one pass of the loop of calculateValueOfExpression on token t:
\* the operand stack afterwards and the exception thrown, if any
ProcessToken(stack, t, w) ==
    IF isOperator(t)
    THEN IF operatorCode(t) = "KLEENE_STAR"
         THEN IF Len(stack) < 1
              THEN [operands |-> stack, error |-> "Missing operands"]
              ELSE [operands |-> Append(Pop(stack), KleeneStar(Top(stack), w)),
                    error |-> NoError]
         ELSE IF Len(stack) < 2
              THEN [operands |-> stack, error |-> "Missing operands"]
              ELSE LET right == Top(stack)
                       left == Top(Pop(stack))
                   IN [operands |->
                           Append(Pop(Pop(stack)),
                                  IF operatorCode(t) = "PLUS" THEN Plus(left, right)
                                             ELSE Multiply(left, right)),
                       error |-> NoError]
    ELSE IF isSymbolOfAlphabet(t)
         THEN [operands |-> Append(stack, LeafOperand(t, w)), error |-> NoError]
         ELSE [operands |-> stack, error |-> "Unknown symbol in expression: " \o t]

\* the end of calculateValueOfExpression without the test for too many operands
EndOfExpressionNoSurplus(stack) ==
    IF Len(stack) < 1 THEN "Missing operands" ELSE NoError

\* the end of calculateValueOfExpression: the exception thrown, if any
EndOfExpression(stack) ==
    IF Len(stack) > 1 THEN "Too much operands"
    ELSE IF Len(stack) < 1 THEN "Missing operands"
    ELSE NoError

\* calculateValueOfExpression after checkWord, as a function of its inputs:
\* the final stack and the exception thrown, if any
RECURSIVE EvalTokensFrom(_, _, _, _)
EvalTokensFrom(stack, tokens, k, w) ==
    IF k > Len(tokens)
    THEN [operands |-> stack, error |-> EndOfExpression(stack)]
    ELSE LET r == ProcessToken(stack, tokens[k], w) IN
         IF r.error # NoError THEN r
         ELSE EvalTokensFrom(r.operands, tokens, k + 1, w)

calculateValueOfExpression(tokens, w) ==
    IF checkWord(w) # NoError
    THEN [operands |-> <<>>, error |-> checkWord(w)]
    ELSE EvalTokensFrom(<<>>, tokens, 1, w)

NoResult == [none |-> TRUE]

\* what a call of solve ends with: the value returned, or the exception
Outcome(a, e) == [answer |-> a, error |-> e]

----------------------------------------------------------------------------
(* Inputs *)

RECURSIVE SeqsOfLen(_, _)
SeqsOfLen(S, n) ==
    IF n = 0 THEN {<<>>}
    ELSE {Append(q, c) : q \in SeqsOfLen(S, n - 1), c \in S}

SeqsUpTo(S, n) == UNION {SeqsOfLen(S, k) : k \in 0..n}

\* tokens the evaluator is fed in SpecEval
EvalTokens == {"a", "b", EPSILON, "+", ".", "*"}

\* reference strings of SpecEval
EvalWords == SeqsUpTo({"a", "b"}, MaxWordLen) \ {<<>>}

\* stored expressions and words of Spec, drawn exhaustively
SolverTokens == {"a", "b", "+", ".", "*"}

SolverChars == {"a", "b", EPSILON}

\* the scenarios the documentation names, and their in-alphabet variants
Scenarios ==
    {<<(<<"a", "b", ".">>), (<<"x", "a", "b", "y">>)>>,
     <<(<<"a", "b", ".">>), (<<"c", "a", "b", "c">>)>>,
     <<(<<"a", "*">>), (<<"a", "a", "a">>)>>,
     <<(<<"a", "b", "+">>), (<<"c", "a", "c">>)>>,
     <<(<<"a", "x", "+">>), (<<"a">>)>>}

SolverInputs ==
    (SeqsUpTo(SolverTokens, MaxExprLen) \X SeqsUpTo(SolverChars, MaxSolverWord))
    \cup Scenarios

----------------------------------------------------------------------------
(* main and Solver::solve *)

Init ==
    /\ \E in \in SolverInputs : expression = in[1] /\ word = in[2]
    /\ storedOperands = <<>>
    /\ toCheck = <<>>
    /\ operands = <<>>
    /\ i = 0
    /\ startPosition = 0
    /\ length = 1
    /\ answer = 0
    /\ result = NoResult
    /\ error = NoError
    /\ pc = "main"
    /\ run = 1
    /\ firstOutcome = NoResult

\* main: readExpression, cin >> word, Solver solver(expression, word)
ReadExpression ==
    /\ pc = "main"
    /\ IF expression = <<>>
       THEN error' = "Expression is empty" /\ pc' = "failed"
       ELSE error' = error /\ pc' = "solve"
    /\ UNCHANGED <<expression, word, storedOperands, toCheck, operands, i,
                   startPosition, length, answer, result, run, firstOutcome>>

\* a trial that evaluates on the Expression the trial before it used
BufferExpressionReused(stored, previous) == previous

\* the stack the trial's Expression starts with: bufferExpression = expression
BufferExpression(stored, previous) == stored

\* solve: the head of a pass of the inner loop, up to the call of the evaluator
BeginTrial ==
    /\ pc = "solve"
    /\ startPosition < Len(word)
    /\ toCheck' = SubSeq(word, startPosition + 1, startPosition + length)
    /\ operands' = BufferExpression(storedOperands, operands)
    /\ pc' = "check"
    /\ UNCHANGED <<expression, word, storedOperands, i, startPosition, length,
                   answer, result, error, run, firstOutcome>>

\* calculateValueOfExpression: checkWord(word)
CheckWord ==
    /\ pc = "check"
    /\ IF checkWord(toCheck) # NoError
       THEN error' = checkWord(toCheck) /\ pc' = "thrown" /\ i' = i
       ELSE error' = error /\ pc' = "eval" /\ i' = 0
    /\ UNCHANGED <<expression, word, storedOperands, toCheck, operands,
                   startPosition, length, answer, result, run, firstOutcome>>

\* calculateValueOfExpression: one pass of the loop over the stored expression
EvalToken ==
    /\ pc = "eval"
    /\ i < Len(expression)
    /\ LET r == ProcessToken(operands, expression[i + 1], toCheck) IN
       IF r.error # NoError
       THEN error' = r.error /\ pc' = "thrown" /\ i' = i /\ operands' = operands
       ELSE error' = error /\ pc' = "eval" /\ i' = i + 1 /\ operands' = r.operands
    /\ UNCHANGED <<expression, word, storedOperands, toCheck, startPosition,
                   length, answer, result, run, firstOutcome>>

\* answer = length in place of answer = max(answer, length)
NextAnswerNoMax(current, len, res) ==
    IF isWordEqualToSomeSubstringInLanguage(res) THEN len ELSE current

\* the answer after a trial of the given length returned res
NextAnswer(current, len, res) ==
    IF isWordEqualToSomeSubstringInLanguage(res) THEN max(current, len) ELSE current

\* calculateValueOfExpression: after the loop; solve: the rest of the pass
EndTrial ==
    /\ pc = "eval"
    /\ i = Len(expression)
    /\ IF EndOfExpression(operands) # NoError
       THEN /\ error' = EndOfExpression(operands)
            /\ pc' = "thrown"
            /\ UNCHANGED <<result, answer, startPosition, length>>
       ELSE /\ error' = error
            /\ pc' = "solve"
            /\ result' = Top(operands)
            /\ answer' = NextAnswer(answer, length, Top(operands))
            /\ IF length + 1 <= Len(word) - startPosition
               THEN length' = length + 1 /\ startPosition' = startPosition
               ELSE length' = 1 /\ startPosition' = startPosition + 1
    /\ UNCHANGED <<expression, word, storedOperands, toCheck, operands, i, run,
                   firstOutcome>>

\* solve: return answer
Return ==
    /\ pc = "solve"
    /\ startPosition >= Len(word)
    /\ pc' = "done"
    /\ UNCHANGED <<expression, word, storedOperands, toCheck, operands, i,
                   startPosition, length, answer, result, error, run, firstOutcome>>

\* a second call of solve on the same Solver
SolveAgain ==
    /\ pc \in {"done", "thrown"}
    /\ run = 1
    /\ run' = 2
    /\ firstOutcome' = Outcome(IF pc = "done" THEN answer ELSE -1, error)
    /\ answer' = 0
    /\ startPosition' = 0
    /\ length' = 1
    /\ error' = NoError
    /\ pc' = "solve"
    /\ UNCHANGED <<expression, word, storedOperands, toCheck, operands, i, result>>

Next ==
    \/ ReadExpression
    \/ BeginTrial
    \/ CheckWord
    \/ EvalToken
    \/ EndTrial
    \/ Return
    \/ SolveAgain

Spec == Init /\ [][Next]_vars

----------------------------------------------------------------------------
(* Expression::calculateValueOfExpression on one reference string.  The     *)
(* tokens are supplied one by one as the loop reads them: expression holds *)
(* the tokens read so far, and the token string may end after any of them. *)
(* Letters enter the code only through tests of equality, so two letters   *)
(* in the reference strings and in the leaves give every pattern of equal  *)
(* and unequal positions of words of up to MaxWordLen letters.             *)

InitEval ==
    /\ expression = <<>>
    /\ word \in EvalWords
    /\ toCheck = word
    /\ storedOperands = <<>>
    /\ operands = <<>>
    /\ i = 0
    /\ startPosition = 0
    /\ length = Len(word)
    /\ answer = 0
    /\ result = NoResult
    /\ error = NoError
    /\ pc = "check"
    /\ run = 1
    /\ firstOutcome = NoResult

\* one pass of the loop of calculateValueOfExpression, the token being supplied
ReadToken ==
    /\ pc = "eval"
    /\ Len(expression) < MaxTokens
    /\ \E t \in EvalTokens :
          /\ expression' = Append(expression, t)
          /\ LET r == ProcessToken(operands, t, toCheck) IN
             IF r.error # NoError
             THEN error' = r.error /\ pc' = "thrown" /\ i' = i /\ operands' = operands
             ELSE error' = error /\ pc' = "eval" /\ i' = i + 1 /\ operands' = r.operands
    /\ UNCHANGED <<word, storedOperands, toCheck, startPosition, length, answer,
                   result, run, firstOutcome>>

\* calculateValueOfExpression: after the loop, the token string having ended
EndOfStream ==
    /\ pc = "eval"
    /\ i = Len(expression)
    /\ IF EndOfExpression(operands) # NoError
       THEN error' = EndOfExpression(operands) /\ pc' = "thrown" /\ result' = result
       ELSE error' = error /\ pc' = "returned" /\ result' = Top(operands)
    /\ UNCHANGED <<expression, word, storedOperands, toCheck, operands, i,
                   startPosition, length, answer, run, firstOutcome>>

NextEval ==
    \/ CheckWord
    \/ ReadToken
    \/ EndOfStream

SpecEval == InitEval /\ [][NextEval]_vars

----------------------------------------------------------------------------
(* The language a postfix token string denotes, with the unbounded star,   *)
(* cut at a length: the set of its strings no longer than n.               *)

ConcatLang(A, B, n) ==
    {p[1] \o p[2] : p \in {q \in A \X B : Len(q[1]) + Len(q[2]) <= n}}

\* the strings of A* of length at most n: a non-empty string of A, then A*
RECURSIVE StarLang(_, _)
StarLang(A, n) ==
    IF n = 0 THEN {<<>>}
    ELSE LET shorter == StarLang(A, n - 1) IN
         shorter \cup
         {p[1] \o p[2] :
            p \in {q \in (A \ {<<>>}) \X shorter : Len(q[1]) + Len(q[2]) = n}}

\* the stack of languages of a token string that evaluates without error
RECURSIVE LangStack(_, _)
LangStack(tokens, n) ==
    IF tokens = <<>> THEN <<>>
    ELSE LET st == LangStack(SubSeq(tokens, 1, Len(tokens) - 1), n)
             t == tokens[Len(tokens)]
         IN CASE t = EPSILON -> Append(st, {<<>>})
              [] t = "+" -> Append(Pop(Pop(st)), Top(Pop(st)) \cup Top(st))
              [] t = "." -> Append(Pop(Pop(st)), ConcatLang(Top(Pop(st)), Top(st), n))
              [] t = "*" -> Append(Pop(st), StarLang(Top(st), n))
              [] OTHER -> Append(st, {<<t>>})

\* a length that holds a shortest witness of every fact about w: left and
\* right of the part that matches, each leaf of the expression is met at
\* most once
LangBound(tokens, w) == Len(w) + Len(tokens)

IsSubstringOf(w, v) ==
    \E s \in 0..(Len(v) - Len(w)) : SubSeq(v, s + 1, s + Len(w)) = w

IsSuffixOf(u, v) ==
    Len(u) <= Len(v) /\ SubSeq(v, Len(v) - Len(u) + 1, Len(v)) = u

IsPrefixOf(u, v) ==
    Len(u) <= Len(v) /\ SubSeq(v, 1, Len(u)) = u

\* the four tables of op say of the language Lambda what their comments say
TablesDescribe(op, Lambda, w) ==
    LET L == Len(w) IN
    /\ op.containsEpsilon = (<<>> \in Lambda)
    /\ \A s \in 0..(L - 1) : \A l \in 1..(L - s) :
          op.containsSubstring[s][l] = (SubSeq(w, s + 1, s + l) \in Lambda)
    /\ \A l \in 1..(L - 1) :
          op.containsSuffixEqualsToPrefix[l]
             = (\E v \in Lambda : IsSuffixOf(SubSeq(w, 1, l), v))
    /\ \A l \in 1..(L - 1) :
          op.containsPrefixEqualsToSuffix[l]
             = (\E v \in Lambda : IsPrefixOf(SubSeq(w, L - l + 1, L), v))

\* C10: every operand on the evaluation stack describes, in its four tables,
\* the language of its sub-expression relative to the reference string
C10_StackDescribesLanguages ==
    pc = "eval" =>
        LET langs == LangStack(expression, LangBound(expression, toCheck)) IN
        \A k \in 1..Len(operands) : TablesDescribe(operands[k], langs[k], toCheck)

\* the operand of (ab)* is on the stack for the reference string "aba"
C10_Witness ==
    /\ pc = "eval"
    /\ toCheck = <<"a", "b", "a">>
    /\ expression = <<"a", "b", ".", "*">>
    /\ Len(operands) = 1
    /\ operands[1].containsSubstring[0][2]
    /\ operands[1].containsSuffixEqualsToPrefix[2]
    /\ operands[1].containsPrefixEqualsToSuffix[1]
    /\ ~operands[1].containsPrefixEqualsToSuffix[2]

\* C1: the evaluation of a well-formed expression reports a match exactly
\* when the reference string is a substring of a string of its language
C1_MatchIffSubstringOfLanguage ==
    pc = "returned" =>
        LET Lambda == LangStack(expression, LangBound(expression, toCheck))[1] IN
        isWordEqualToSomeSubstringInLanguage(result)
            = (\E v \in Lambda : IsSubstringOf(toCheck, v))

\* (ab)* evaluated against "ba": a match that needs two rounds of the star
C1_Witness ==
    /\ pc = "returned"
    /\ expression = <<"a", "b", ".", "*">>
    /\ toCheck = <<"b", "a">>
    /\ isWordEqualToSomeSubstringInLanguage(result)

----------------------------------------------------------------------------
(* The operand stack as the token string alone determines it *)

IsLeafToken(t) == isSymbolOfAlphabet(t)

IsBinaryToken(t) == t \in {"+", "."}

\* operands on the stack after a token string that raised nothing
RECURSIVE Depth(_)
Depth(tokens) ==
    IF tokens = <<>> THEN 0
    ELSE LET t == tokens[Len(tokens)]
             d == Depth(SubSeq(tokens, 1, Len(tokens) - 1))
         IN IF IsLeafToken(t) THEN d + 1
            ELSE IF IsBinaryToken(t) THEN d - 1
            ELSE d

\* token t met with too few operands, after the token string before
LacksOperands(before, t) ==
    \/ IsBinaryToken(t) /\ Depth(before) < 2
    \/ t = "*" /\ Depth(before) < 1

\* C6: "Missing operands" is raised as soon as an operator lacks operands,
\* "Too much operands" when the tokens end with more than one operand, and a
\* result is returned only with exactly one operand left; `ab` gives the
\* second error and `+a` the first
C6_OperandCountErrors ==
    /\ pc = "eval" =>
          /\ Len(operands) = Depth(expression)
          /\ \A k \in 1..Len(expression) :
                ~LacksOperands(SubSeq(expression, 1, k - 1), expression[k])
    /\ (pc = "thrown" /\ Len(expression) > i /\ isOperator(expression[i + 1])) =>
          /\ error = "Missing operands"
          /\ LacksOperands(SubSeq(expression, 1, i), expression[i + 1])
    /\ (pc = "thrown" /\ Len(expression) = i) =>
          \/ Depth(expression) > 1 /\ error = "Too much operands"
          \/ Depth(expression) < 1 /\ error = "Missing operands"
    /\ pc = "returned" => Depth(expression) = 1 /\ result = operands[1]
    /\ (expression = <<"a", "b">> /\ i = 2 /\ pc # "eval") =>
          pc = "thrown" /\ error = "Too much operands"
    /\ (expression # <<>> /\ expression[1] = "+") =>
          pc = "thrown" /\ error = "Missing operands"

\* the token string `ab` has ended with two operands on the stack
C6_Witness ==
    /\ pc = "thrown"
    /\ expression = <<"a", "b">>
    /\ Len(operands) = 2
    /\ error = "Too much operands"

----------------------------------------------------------------------------
(* Algebra of the operands the evaluator builds *)

\* C7: concatenation with the epsilon leaf, on either side, reproduces every
\* field of an operand the evaluator built, for every reference string
C7_EpsilonIsIdentity ==
    (pc = "eval" /\ operands # <<>>) =>
        LET A == Top(operands)
            e == LeafOperand(EPSILON, toCheck)
        IN Multiply(A, e) = A /\ Multiply(e, A) = A

\* the slots of the tables that the loops of operator* and operator+ both cover
SameOnLoopRanges(A, B) ==
    LET L == A.wordLength IN
    /\ A.wordLength = B.wordLength
    /\ A.containsEpsilon = B.containsEpsilon
    /\ A.containsWordAsSubstring = B.containsWordAsSubstring
    /\ \A s \in 0..(L - 1) : \A l \in 1..(L - s) :
          A.containsSubstring[s][l] = B.containsSubstring[s][l]
    /\ \A l \in 1..(L - 1) :
          /\ A.containsSuffixEqualsToPrefix[l] = B.containsSuffixEqualsToPrefix[l]
          /\ A.containsPrefixEqualsToSuffix[l] = B.containsPrefixEqualsToSuffix[l]

\* concatenation with the epsilon leaf reproduces an operand on the slots the
\* loops cover, and in every slot when the reference string is longer than 1
EpsilonIsIdentityOnLoopRanges ==
    (pc = "eval" /\ operands # <<>>) =>
        LET A == Top(operands)
            e == LeafOperand(EPSILON, toCheck)
        IN /\ SameOnLoopRanges(Multiply(A, e), A)
           /\ SameOnLoopRanges(Multiply(e, A), A)
           /\ Len(toCheck) > 1 => (Multiply(A, e) = A /\ Multiply(e, A) = A)

\* C9: after the passes of the loop of calculateKleeneStar, further passes
\* leave every field of the accumulated operand unchanged
C9_KleeneLoopIsFixedPoint ==
    (pc = "eval" /\ operands # <<>>) =>
        LET e == Top(operands)
            after == KleeneLoop(KleeneStart(toCheck), e, KleeneIterations(toCheck))
        IN \A x \in 1..MaxExtra :
              KleeneLoop(after, e, x).currentOperand = after.currentOperand

\* the star is about to be applied to ab. for the reference string "bab",
\* which a single power does not yet match
C9_Witness ==
    /\ pc = "eval"
    /\ expression = <<"a", "b", ".">>
    /\ toCheck = <<"b", "a", "b">>
    /\ ~KleeneLoop(KleeneStart(toCheck), Top(operands), 1)
            .currentOperand.containsWordAsSubstring
    /\ KleeneStar(Top(operands), toCheck).containsWordAsSubstring

----------------------------------------------------------------------------
(* Solver::solve *)

SetMax(S) == CHOOSE m \in S : \A n \in S : n <= m

\* the evaluation of the stored expression reports a match for w
Matches(tokens, w) ==
    LET r == calculateValueOfExpression(tokens, w) IN
    r.error = NoError /\ isWordEqualToSomeSubstringInLanguage(Top(r.operands))

MatchingLengths(tokens, w) ==
    {len \in 1..Len(w) :
        \E start \in 0..(Len(w) - len) :
            Matches(tokens, SubSeq(w, start + 1, start + len))}

\* C2: solve returns the greatest length of a substring of the word for which
\* the evaluation reports a match, 0 when there is none; a* and aaa give 3
C2_SolveReturnsMaxMatchingLength ==
    /\ pc = "done" => answer = SetMax(MatchingLengths(expression, word) \cup {0})
    /\ (expression = <<"a", "*">> /\ word = <<"a", "a", "a">>) =>
          pc # "thrown" /\ (pc = "done" => answer = 3)

\* solve has returned 3 for a* and aaa
C2_Witness ==
    /\ pc = "done"
    /\ expression = <<"a", "*">>
    /\ word = <<"a", "a", "a">>
    /\ answer = 3

IsScenario(e, w) == expression = e /\ word = w

\* C3, as claimed: for ab. and xaby the search completes and returns 2
C3_Original ==
    IsScenario(<<"a", "b", ".">>, <<"x", "a", "b", "y">>) =>
        pc # "thrown" /\ (pc = "done" => answer = 2)

\* C3, amended: for ab. and xaby the search ends in the first trial with the
\* unknown-symbol error of checkWord, x being outside the alphabet; for ab. and
\* cabc it completes and returns 2
C3_UnknownSymbolThenTwo ==
    /\ IsScenario(<<"a", "b", ".">>, <<"x", "a", "b", "y">>) =>
          /\ pc # "done"
          /\ pc = "thrown" =>
                /\ error = "Unknown symbol in word: x"
                /\ toCheck = <<"x">>
                /\ i = 0
    /\ IsScenario(<<"a", "b", ".">>, <<"c", "a", "b", "c">>) =>
          pc # "thrown" /\ (pc = "done" => answer = 2)

\* the search for ab. in xaby has ended with the error of checkWord
C3_Witness ==
    /\ IsScenario(<<"a", "b", ".">>, <<"x", "a", "b", "y">>)
    /\ pc = "thrown"
    /\ error = "Unknown symbol in word: x"

\* C4: with an empty word the search ends in an error, never in a result
C4_EmptyWordIsError ==
    word = <<>> => pc # "done"

\* the character c is outside a, b, c
OutsideLetters(c) == c \notin {"a", "b", "c"}

\* the errors the tokens of the expression raise
ExpressionErrors ==
    {"Missing operands", "Too much operands"}
    \cup {"Unknown symbol in expression: " \o t : t \in {"x"}}

\* C5: a word with a character outside a, b, c is rejected before any trial:
\* no token of the expression is processed and no error of the expression is
\* reported
C5_BadWordRejectedBeforeTrials ==
    ((\E k \in 1..Len(word) : OutsideLetters(word[k])) /\ run = 1) =>
        i = 0 /\ error \notin ExpressionErrors

\* C8: a second call of solve ends as the first did; every trial starts with
\* an empty operand stack, and no step changes the stored expression, its
\* stack or the word
C8_SolveTwiceSameOutcome ==
    /\ [](/\ storedOperands = <<>>
          /\ pc = "check" => operands = <<>>
          /\ (run = 2 /\ pc = "done") => firstOutcome = Outcome(answer, error)
          /\ (run = 2 /\ pc = "thrown") => firstOutcome = Outcome(-1, error))
    /\ [][/\ expression' = expression
          /\ word' = word
          /\ storedOperands' = storedOperands]_vars

\* the second call has returned, after trials that matched
C8_Witness ==
    /\ run = 2
    /\ pc = "done"
    /\ answer = 2
    /\ firstOutcome = Outcome(2, NoError)

====
